---- MODULE Spec2Model ----
(***************************************************************************)
(* A model of the Sudoku engine of AI_Project/AI_suduko.py: the board      *)
(* (SudokuBoard), its backtracking solver, the candidate computation and   *)
(* the auto-solve action of the game (SudokuGame.solve_puzzle).            *)
(*                                                                         *)
(* Python lists are mutable objects that are reached through references.   *)
(* The three grids of a board (self.board, self.initial_board and          *)
(* self.solution) are therefore modelled as references into a heap of grid *)
(* objects, and copy.deepcopy as the allocation of a new object: whether   *)
(* two fields share an object is part of the state, so that a write        *)
(* through one field that shows through another one is expressible.        *)
(***************************************************************************)
EXTENDS Integers, Sequences, FiniteSets, TLC

\* SudokuBoard.SIZE, BOX_SIZE and EMPTY (class attributes).
SIZE == 9
BOX_SIZE == 3
EMPTY == 0

\* range(9) and range(1, 10).
Idx == 0..(SIZE - 1)
Digits == 1..9

\* Python's None: an absent cell, an absent solution.
None == <<>>

\* A grid is a list of 9 lists of 9 numbers, here a tuple of 9 tuples.  Python
\* counts rows and columns from 0 and tuples count from 1: Cell(g, row, col)
\* reads g[row][col] and SetCell(g, row, col, num) is g after
\* g[row][col] = num, row and col being the indices of the source.
Cell(g, row, col) == g[row + 1][col + 1]
SetCell(g, row, col, num) == [g EXCEPT ![row + 1][col + 1] = num]
MakeGrid(f(_, _)) == [r \in 1..SIZE |-> [c \in 1..SIZE |-> f(r - 1, c - 1)]]

(***************************************************************************)
(* Bounds of the model.                                                    *)
(***************************************************************************)
\* The starting grids blank any subset of the first NumHoleCells cells of
\* CellList.
NumHoleCells == 4
\* The starting grids overwrite at most one cell, with one of the first
\* NumOverwrites entries of OverwriteList.
NumOverwrites == 2
\* The calls of a session address the first NumPlayCells cells of CellList
NumPlayCells == 2
\* and place the first NumPlayNums numbers of NumList.
NumPlayNums == 4
\* The boards that are queried are constructed from the first NumQueryGrids
\* entries of QueryGridList.
NumQueryGrids == 13
\* The shuffles of a generate_puzzle call leave one of the first NumShuffles
\* lists of ShuffleList,
NumShuffles == 2
\* its samples that hit a filled cell follow one of the first NumOrders orders
NumOrders == 2
\* and a sample that hits an empty cell hits one of the last NumResample
\* cells cleared.
NumResample == 2

(***************************************************************************)
(* Starting grids handed to the constructor.                               *)
(***************************************************************************)
Min(a, b) == IF a < b THEN a ELSE b

\* A valid complete grid: row r is 1..9 rotated by 3*(r mod 3) + r div 3.
FullGrid == MakeGrid(LAMBDA r, c : ((3 * (r % 3) + (r \div 3) + c) % 9) + 1)

\* Cells that are blanked and played on.  Blanking (3,7), (3,8) and (6,7)
\* leaves a puzzle on which the solver has to backtrack: 1 fits (3,7) first,
\* and then nothing fits (3,8).
\* With (1,7) blank as well and (3,0) overwritten, 2 is missing from the row
\* and the column of (3,7) and present in its box only.
CellList == << <<3, 7>>, <<3, 8>>, <<6, 7>>, <<1, 7>>, <<0, 0>>, <<4, 4>>, <<8, 1>> >>

\* <<row, col, digit>>: (8,0) := 5 duplicates a digit far from the holes,
\* (3,0) := 9 leaves the holes of row 3 without a completion, (0,0) := 2
\* duplicates the 2 of row 0.
OverwriteList == << <<8, 0, 5>>, <<3, 0, 9>>, <<0, 0, 2>> >>

\* The numbers placed: 0 clears; 1, 9 and 2 are the digits the cells of
\* CellList and OverwriteList miss; the others are held by every row.
NumList == <<0, 1, 9, 2, 5, 8, 3, 4, 6, 7>>

HoleCells == {CellList[i] : i \in 1..Min(NumHoleCells, Len(CellList))}
PlayCells == {CellList[i] : i \in 1..Min(NumPlayCells, Len(CellList))}
Overwrites == {OverwriteList[i] : i \in 1..Min(NumOverwrites, Len(OverwriteList))}
PlayNums == {NumList[i] : i \in 1..Min(NumPlayNums, Len(NumList))}

Blank(g, holes) == MakeGrid(LAMBDA r, c : IF <<r, c>> \in holes THEN 0 ELSE Cell(g, r, c))

StartGrids ==
    LET blanked == {Blank(FullGrid, holes) : holes \in SUBSET HoleCells}
    IN  blanked \cup {SetCell(g, o[1], o[2], o[3]) : g \in blanked, o \in Overwrites}

(***************************************************************************)
(* Starting grids of the boards that are queried.                          *)
(***************************************************************************)
\* The grid SudokuBoard() finds for the empty board: the first valid complete
\* grid in the order of the solver.
LexGrid ==
    << <<1, 2, 3, 4, 5, 6, 7, 8, 9>>,
       <<4, 5, 6, 7, 8, 9, 1, 2, 3>>,
       <<7, 8, 9, 1, 2, 3, 4, 5, 6>>,
       <<2, 1, 4, 3, 6, 5, 8, 9, 7>>,
       <<3, 6, 5, 8, 9, 7, 2, 1, 4>>,
       <<8, 9, 7, 2, 1, 4, 3, 6, 5>>,
       <<5, 3, 1, 6, 4, 2, 9, 7, 8>>,
       <<6, 4, 2, 9, 7, 8, 5, 3, 1>>,
       <<9, 7, 8, 5, 3, 1, 6, 4, 2>> >>

\* A latin square: every row and every column holds 1..9, no box does.
LatinGrid == MakeGrid(LAMBDA r, c : ((r + c) % 9) + 1)

\* g after g[row][col] = num for every <<row, col, num>> of writes, no two of
\* which address the same cell.
RECURSIVE Write(_, _)
Write(g, writes) ==
    IF writes = {} THEN g
    ELSE LET w == CHOOSE x \in writes : TRUE
         IN  Write(SetCell(g, w[1], w[2], w[3]), writes \ {w})

\* The grids handed to the constructor, each a complete grid with some cells
\* blanked and some overwritten:
\*   1  two row-swapped cells: two columns hold a digit twice, no row or box
\*   2  a latin square: every box holds a digit twice, no row or column
\*   3  (0,0) blank and its digit 1 put next to it: no digit fits (0,0)
\*   4  four blank cells that take 1 or 2 each, either way round
\*   5  one blank cell in row 1 and one in row 4, both in column 2, that take
\*      5 or 6: a digit fits one cell of its row and two cells of the column
\*   6  two blank cells in row 3 that take 1 or 2: a digit fits two cells of
\*      the row and one cell of its column
\*   7  (0,4) takes 2 or 5 and (2,1) takes 2 or 8: a digit fits one cell of
\*      its row and one cell of its column, in rows 0 and 2, columns 1 and 4
\*   8  a complete grid with a 10 in it
\*   9  (0,0) blank: the only candidate of the only empty cell is 1
\*  10  (0,0) blank, row 0 holds 2..9 and column 0 holds a 1
\*  11  two column-swapped cells: two rows hold a digit twice, no column or box
\*  12  the complete valid grid
\*  13  (0,0) takes 1 or 2, (0,1) takes 2 and (3,0) takes 2: 1 fits one cell
\*      of column 0, a cell with two candidates, and the grid has one
\*      valid completion
\*  14  a complete grid with a -1 in it
QueryGridList ==
    << [base |-> LexGrid, holes |-> {}, writes |-> {<<0, 0, 2>>, <<0, 1, 1>>}],
       [base |-> LatinGrid, holes |-> {}, writes |-> {}],
       [base |-> LexGrid, holes |-> {<<0, 0>>}, writes |-> {<<0, 1, 1>>}],
       [base |-> LexGrid, holes |-> {<<0, 0>>, <<0, 1>>, <<3, 0>>, <<3, 1>>}, writes |-> {}],
       [base |-> LexGrid, holes |-> {<<1, 2>>, <<4, 2>>}, writes |-> {<<1, 1, 1>>, <<4, 1, 9>>}],
       [base |-> LexGrid, holes |-> {<<3, 0>>, <<3, 1>>}, writes |-> {<<0, 1, 3>>, <<0, 0, 9>>}],
       [base |-> LexGrid, holes |-> {<<0, 4>>, <<2, 1>>}, writes |-> {<<2, 4, 7>>, <<0, 1, 7>>}],
       [base |-> LexGrid, holes |-> {}, writes |-> {<<0, 0, 10>>}],
       [base |-> LexGrid, holes |-> {<<0, 0>>}, writes |-> {}],
       [base |-> LexGrid, holes |-> {<<0, 0>>}, writes |-> {<<1, 0, 1>>}],
       [base |-> LexGrid, holes |-> {}, writes |-> {<<0, 0, 4>>, <<1, 0, 1>>}],
       [base |-> LexGrid, holes |-> {}, writes |-> {}],
       [base |-> LexGrid, holes |-> {<<0, 0>>, <<0, 1>>, <<3, 0>>}, writes |-> {}],
       [base |-> LexGrid, holes |-> {}, writes |-> {<<0, 0, -1>>}] >>

QueryGrids ==
    {Write(Blank(QueryGridList[i].base, QueryGridList[i].holes), QueryGridList[i].writes) :
        i \in 1..Min(NumQueryGrids, Len(QueryGridList))}

(***************************************************************************)
(* The solver (SudokuBoard._solve_with_backtracking and its helpers).      *)
(***************************************************************************)
\* _find_empty_cell: "for row in range(9): for col in range(9)", returning
\* the first (row, col) that holds 0 and None when the loops end.
\* find_empty_in_row is the inner loop from col on, find_empty_from_row the
\* outer loop from row on.
RECURSIVE find_empty_in_row(_, _, _)
find_empty_in_row(b, row, col) ==
    IF col >= 9 THEN None
    ELSE IF Cell(b, row, col) = 0 THEN <<row, col>>
    ELSE find_empty_in_row(b, row, col + 1)

RECURSIVE find_empty_from_row(_, _)
find_empty_from_row(b, row) ==
    IF row >= 9 THEN None
    ELSE LET found == find_empty_in_row(b, row, 0)
         IN  IF found # None THEN found ELSE find_empty_from_row(b, row + 1)

find_empty_cell(b) == find_empty_from_row(b, 0)

\* Faulty variants of _is_valid_placement, one without the scan of the box
\* and one without the scan of the column: the properties of place_number
\* below fail with either in its place.
is_valid_placement_no_box(b, row, col, num) ==
    /\ ~(\E c \in Idx : Cell(b, row, c) = num)
    /\ ~(\E r \in Idx : Cell(b, r, col) = num)

is_valid_placement_no_column(b, row, col, num) ==
    LET box_row == (row \div 3) * 3
        box_col == (col \div 3) * 3
    IN  /\ ~(\E c \in Idx : Cell(b, row, c) = num)
        /\ ~(\E r \in box_row..(box_row + 2), c \in box_col..(box_col + 2) : Cell(b, r, c) = num)

\* _is_valid_placement: num occurs nowhere in the row, the column or the box
\* of (row, col); the cell (row, col) itself is among the cells looked at.
is_valid_placement(b, row, col, num) ==
    LET box_row == (row \div 3) * 3
        box_col == (col \div 3) * 3
    IN  /\ ~(\E c \in Idx : Cell(b, row, c) = num)
        /\ ~(\E r \in Idx : Cell(b, r, col) = num)
        /\ ~(\E r \in box_row..(box_row + 2), c \in box_col..(box_col + 2) : Cell(b, r, c) = num)

\* _solve_with_backtracking works in place on its argument and returns a
\* bool; here it returns both, [ret, board], board being the argument as the
\* call leaves it.  try_numbers is the loop "for num in range(1, 10)" from
\* num on.
RECURSIVE solve_with_backtracking(_)
RECURSIVE try_numbers(_, _, _, _)
\* A faulty variant of the loop that returns what the first valid number
\* leads to and never tries another one: the solver is not complete with it.
RECURSIVE try_numbers_no_backtrack(_, _, _, _)
try_numbers_no_backtrack(b, row, col, num) ==
    IF num > 9 THEN [ret |-> FALSE, board |-> b]
    ELSE IF is_valid_placement(b, row, col, num)
    THEN solve_with_backtracking(SetCell(b, row, col, num))
    ELSE try_numbers_no_backtrack(b, row, col, num + 1)

\* A faulty variant of the loop that tries the numbers from 9 down to 1
\* ("for num in range(9, 0, -1)"): its step num tries 10 - num.
RECURSIVE try_numbers_descending(_, _, _, _)
try_numbers_descending(b, row, col, num) ==
    IF num > 9 THEN [ret |-> FALSE, board |-> b]
    ELSE IF is_valid_placement(b, row, col, 10 - num)
    THEN LET sub == solve_with_backtracking(SetCell(b, row, col, 10 - num))
         IN  IF sub.ret
             THEN sub
             ELSE try_numbers_descending(SetCell(sub.board, row, col, 0), row, col, num + 1)
    ELSE try_numbers_descending(b, row, col, num + 1)

\* A faulty variant of the loop that returns True when no number is left.
RECURSIVE try_numbers_returns_true(_, _, _, _)
try_numbers_returns_true(b, row, col, num) ==
    IF num > 9 THEN [ret |-> TRUE, board |-> b]
    ELSE IF is_valid_placement(b, row, col, num)
    THEN LET sub == solve_with_backtracking(SetCell(b, row, col, num))
         IN  IF sub.ret
             THEN sub
             ELSE try_numbers_returns_true(SetCell(sub.board, row, col, 0), row, col, num + 1)
    ELSE try_numbers_returns_true(b, row, col, num + 1)

solve_with_backtracking(b) ==
    LET empty_cell == find_empty_cell(b)
    IN  IF empty_cell = None
        THEN [ret |-> TRUE, board |-> b]
        ELSE try_numbers(b, empty_cell[1], empty_cell[2], 1)

try_numbers(b, row, col, num) ==
    IF num > 9 THEN [ret |-> FALSE, board |-> b]
    ELSE IF is_valid_placement(b, row, col, num)
    THEN LET sub == solve_with_backtracking(SetCell(b, row, col, num))
         IN  IF sub.ret
             THEN sub
             ELSE try_numbers(SetCell(sub.board, row, col, 0), row, col, num + 1)
    ELSE try_numbers(b, row, col, num + 1)

(***************************************************************************)
(* State.                                                                  *)
(***************************************************************************)
VARIABLES
    heap,           \* the grid objects: reference |-> 9x9 grid
    board,          \* self.board: a reference
    initial_board,  \* self.initial_board: a reference
    solution,       \* self.solution: a reference, or None
    won,            \* SudokuGame.won
    last,           \* the last call: its name, arguments and result
    gen,            \* the locals of a running generate_puzzle call, or None
    search,         \* a running backtracking search, or None
    game            \* the fields of the SudokuGame that handles the events, or None

vars == <<heap, board, initial_board, solution, won, last, gen, search, game>>

\* References are names of objects: <<1>>, <<2>>, ...
Ref(i) == <<i>>

\* copy.deepcopy makes a new object.  The new object gets the least name no
\* field in `others` holds: the object the assigned field held before is
\* dropped by the assignment unless another field holds it too.
NewRef(others) ==
    Ref(CHOOSE i \in 1..(Cardinality(others) + 1) :
            /\ Ref(i) \notin others
            /\ \A j \in 1..(i - 1) : Ref(j) \in others)

\* The heap after an assignment: the objects some field still holds.
Collect(h, live) == [x \in (live \ {None}) |-> h[x]]

cells == heap[board]
initial == heap[initial_board]

\* The record of a call: its name, its arguments, and what it returns, by
\* type: ret a bool, poss a set of digits, dict a dict from cells to sets,
\* list a list of triples, label a string, cell a cell or None.
Call(op, row, col, num, ret, poss) ==
    [op |-> op, row |-> row, col |-> col, num |-> num, ret |-> ret, poss |-> poss,
     dict |-> <<>>, list |-> <<>>, label |-> "", cell |-> None,
     again |-> /\ last.op = op
               /\ last.row = row
               /\ last.col = col
               /\ last.num = num]

(***************************************************************************)
(* SudokuBoard.__init__ and _generate_solution.                            *)
(***************************************************************************)
\* _generate_solution(grid): the solver runs on a deep copy of self.board;
\* the copy becomes self.solution when the solver returns True.
generate_solution(grid) == solve_with_backtracking(grid)

\* The first call record of a session: the constructor's.
Constructed(ret) ==
    [op |-> "init", row |-> 0, col |-> 0, num |-> 0, ret |-> ret, poss |-> {},
     dict |-> <<>>, list |-> <<>>, label |-> "", cell |-> None,
     again |-> FALSE]

\* A faulty constructor that keeps the board itself as its initial snapshot
\* (self.initial_board = self.board): a placement then shows in the snapshot.
Init_snapshot_not_copied ==
    \E grid \in StartGrids :
        LET solved == generate_solution(grid)
        IN  /\ board = Ref(1)
            /\ initial_board = Ref(1)
            /\ solution = IF solved.ret THEN Ref(2) ELSE None
            /\ heap = IF solved.ret
                      THEN (Ref(1) :> grid) @@ (Ref(2) :> solved.board)
                      ELSE (Ref(1) :> grid)
            /\ won = FALSE
            /\ last = Constructed(solved.ret)
            /\ gen = None
            /\ search = None
            /\ game = None

\* SudokuBoard(grid): board and initial_board are two deep copies of the
\* argument, solution a third object (the solver's copy, solved) or None.
Init ==
    \E grid \in StartGrids :
        LET solved == generate_solution(grid)
        IN  /\ board = Ref(1)
            /\ initial_board = Ref(2)
            /\ solution = IF solved.ret THEN Ref(3) ELSE None
            /\ heap = IF solved.ret
                      THEN (Ref(1) :> grid) @@ (Ref(2) :> grid) @@ (Ref(3) :> solved.board)
                      ELSE (Ref(1) :> grid) @@ (Ref(2) :> grid)
            /\ won = FALSE
            /\ last = Constructed(solved.ret)
            /\ gen = None
            /\ search = None
            /\ game = None

\* SudokuBoard(grid) for the grids that are queried.
QueryInit ==
    \E grid \in QueryGrids :
        LET solved == generate_solution(grid)
        IN  /\ board = Ref(1)
            /\ initial_board = Ref(2)
            /\ solution = IF solved.ret THEN Ref(3) ELSE None
            /\ heap = IF solved.ret
                      THEN (Ref(1) :> grid) @@ (Ref(2) :> grid) @@ (Ref(3) :> solved.board)
                      ELSE (Ref(1) :> grid) @@ (Ref(2) :> grid)
            /\ won = FALSE
            /\ last = Constructed(solved.ret)
            /\ gen = None
            /\ search = None
            /\ game = None

(***************************************************************************)
(* SudokuBoard.place_number.                                               *)
(***************************************************************************)
\* A faulty variant without the case "if num == 0": clearing a cell goes
\* through the validity check like a digit.
place_number_ret_no_clear(row, col, num) ==
    is_valid_placement(cells, row, col, num)

\* A faulty variant without the validity check.
place_number_ret_unchecked(row, col, num) == TRUE

\* The value place_number returns.
place_number_ret(row, col, num) ==
    IF num = 0 THEN TRUE ELSE is_valid_placement(cells, row, col, num)

\* A faulty variant that writes the cell before it checks the number.
place_number_writes_first(row, col, num) ==
    /\ heap' = [heap EXCEPT ![board] = SetCell(cells, row, col, num)]
    /\ last' = Call("place_number", row, col, num, place_number_ret(row, col, num), {})
    /\ UNCHANGED <<board, initial_board, solution, won, gen, search, game>>

\* place_number writes self.board[row][col] in place, that is, into the
\* object self.board refers to.
place_number(row, col, num) ==
    /\ heap' = IF place_number_ret(row, col, num)
               THEN [heap EXCEPT ![board] = SetCell(cells, row, col, num)]
               ELSE heap
    /\ last' = Call("place_number", row, col, num, place_number_ret(row, col, num), {})
    /\ UNCHANGED <<board, initial_board, solution, won, gen, search, game>>

(***************************************************************************)
(* SudokuBoard.reset.                                                      *)
(***************************************************************************)
\* A faulty variant with the assignment the wrong way round:
\* self.initial_board = copy.deepcopy(self.board).
reset_wrong_way_round ==
    LET ref == NewRef({board, solution})
    IN  /\ initial_board' = ref
        /\ heap' = Collect((ref :> heap[board]) @@ heap, {ref, board, solution})
        /\ last' = Call("reset", 0, 0, 0, TRUE, {})
        /\ UNCHANGED <<board, solution, won, gen, search, game>>

\* self.board = copy.deepcopy(self.initial_board)
reset ==
    LET ref == NewRef({initial_board, solution})
    IN  /\ board' = ref
        /\ heap' = Collect((ref :> heap[initial_board]) @@ heap,
                           {ref, initial_board, solution})
        /\ last' = Call("reset", 0, 0, 0, TRUE, {})
        /\ UNCHANGED <<initial_board, solution, won, gen, search, game>>

(***************************************************************************)
(* SudokuGame.solve_puzzle.                                                *)
(***************************************************************************)
\* A faulty variant without the deep copy (self.board.board = solution): the
\* board and the solution are then one object.
solve_puzzle_no_copy ==
    /\ IF solution # None
       THEN /\ board' = solution
            /\ heap' = Collect(heap, {solution, initial_board})
            /\ won' = TRUE
       ELSE UNCHANGED <<board, heap, won>>
    /\ last' = Call("solve_puzzle", 0, 0, 0, solution # None, {})
    /\ UNCHANGED <<initial_board, solution, gen, search, game>>

\* A faulty variant that copies the initial snapshot instead of the solution.
solve_puzzle_copies_initial ==
    /\ IF solution # None
       THEN LET ref == NewRef({initial_board, solution})
            IN  /\ board' = ref
                /\ heap' = Collect((ref :> heap[initial_board]) @@ heap,
                                   {ref, initial_board, solution})
                /\ won' = TRUE
       ELSE UNCHANGED <<board, heap, won>>
    /\ last' = Call("solve_puzzle", 0, 0, 0, solution # None, {})
    /\ UNCHANGED <<initial_board, solution, gen, search, game>>

\* if self.board.solution: self.board.board = copy.deepcopy(solution);
\* self.won = True.  A grid is a non-empty list, hence true; None is false.
solve_puzzle ==
    /\ IF solution # None
       THEN LET ref == NewRef({initial_board, solution})
            IN  /\ board' = ref
                /\ heap' = Collect((ref :> heap[solution]) @@ heap,
                                   {ref, initial_board, solution})
                /\ won' = TRUE
       ELSE UNCHANGED <<board, heap, won>>
    /\ last' = Call("solve_puzzle", 0, 0, 0, solution # None, {})
    /\ UNCHANGED <<initial_board, solution, gen, search, game>>

(***************************************************************************)
(* SudokuBoard.get_possibilities.                                          *)
(***************************************************************************)
\* A faulty variant that leaves out the box.
possibilities_no_box(row, col) ==
    IF Cell(cells, row, col) # 0 THEN {}
    ELSE LET less_row == Digits \ {Cell(cells, row, c) : c \in {x \in Idx : Cell(cells, row, x) # 0}}
         IN  less_row \ {Cell(cells, r, col) : r \in {x \in Idx : Cell(cells, x, col) # 0}}

\* A faulty variant without the loop over the column.
possibilities_no_column(row, col) ==
    IF Cell(cells, row, col) # 0 THEN {}
    ELSE LET box_row == (row \div 3) * 3
             box_col == (col \div 3) * 3
             less_row == Digits \ {Cell(cells, row, c) : c \in {x \in Idx : Cell(cells, row, x) # 0}}
         IN  less_row \ {Cell(cells, q[1], q[2]) :
                            q \in {x \in (box_row..(box_row + 2)) \X (box_col..(box_col + 2)) :
                                       Cell(cells, x[1], x[2]) # 0}}

\* The set get_possibilities(row, col) returns: 1..9 less the non-zero
\* values of the row, of the column and of the box, in that order.
possibilities(row, col) ==
    IF Cell(cells, row, col) # 0 THEN {}
    ELSE LET box_row == (row \div 3) * 3
             box_col == (col \div 3) * 3
             all == Digits
             less_row == all \ {Cell(cells, row, c) : c \in {x \in Idx : Cell(cells, row, x) # 0}}
             less_col == less_row \ {Cell(cells, r, col) : r \in {x \in Idx : Cell(cells, x, col) # 0}}
         IN  less_col \ {Cell(cells, p[1], p[2]) :
                            p \in {q \in (box_row..(box_row + 2)) \X (box_col..(box_col + 2)) :
                                       Cell(cells, q[1], q[2]) # 0}}

get_possibilities(row, col) ==
    /\ last' = Call("get_possibilities", row, col, 0, TRUE, possibilities(row, col))
    /\ UNCHANGED <<heap, board, initial_board, solution, won, gen, search, game>>

(***************************************************************************)
(* SudokuBoard.get_all_possibilities.                                      *)
(***************************************************************************)
\* The dict that get_all_possibilities returns is modelled by the sequence of
\* its items <<(row, col), set>> in the order of insertion, which is the order
\* in which a Python dict is iterated.
\* A faulty variant without "if poss": an empty set is stored as well.
RECURSIVE all_possibilities_in_row_keeps_empty(_, _)
all_possibilities_in_row_keeps_empty(row, col) ==
    IF col >= 9 THEN <<>>
    ELSE (IF Cell(cells, row, col) = 0
          THEN << << <<row, col>>, possibilities(row, col) >> >>
          ELSE <<>>) \o all_possibilities_in_row_keeps_empty(row, col + 1)

\* "for col in range(9)" from col on, in the row `row`.
RECURSIVE all_possibilities_in_row(_, _)
all_possibilities_in_row(row, col) ==
    IF col >= 9 THEN <<>>
    ELSE (IF Cell(cells, row, col) = 0 /\ possibilities(row, col) # {}
          THEN << << <<row, col>>, possibilities(row, col) >> >>
          ELSE <<>>) \o all_possibilities_in_row(row, col + 1)

\* "for row in range(9)" from row on.
RECURSIVE all_possibilities_from_row(_)
all_possibilities_from_row(row) ==
    IF row >= 9 THEN <<>>
    ELSE all_possibilities_in_row(row, 0) \o all_possibilities_from_row(row + 1)

\* The dict get_all_possibilities returns.
all_possibilities == all_possibilities_from_row(0)

get_all_possibilities ==
    /\ last' = [Call("get_all_possibilities", 0, 0, 0, TRUE, {}) EXCEPT !.dict = all_possibilities]
    /\ UNCHANGED <<heap, board, initial_board, solution, won, gen, search, game>>

(***************************************************************************)
(* SudokuBoard.is_complete and is_valid_complete.                          *)
(***************************************************************************)
\* The value is_complete returns: no row has a 0 in it.
is_complete_ret ==
    ~(\E row \in Idx : \E c \in Idx : Cell(cells, row, c) = 0)

is_complete ==
    /\ last' = Call("is_complete", 0, 0, 0, is_complete_ret, {})
    /\ UNCHANGED <<heap, board, initial_board, solution, won, gen, search, game>>

\* A faulty variant without the check of the columns.
is_valid_complete_ret_no_columns ==
    IF ~is_complete_ret THEN FALSE
    ELSE /\ \A row \in Idx :
              /\ Cardinality({Cell(cells, row, c) : c \in Idx}) = 9
              /\ ~(\E c \in Idx : Cell(cells, row, c) = 0)
         /\ \A i \in 0..2, j \in 0..2 :
              Cardinality({Cell(cells, r, c) : r \in (3 * i)..(3 * i + 2),
                                               c \in (3 * j)..(3 * j + 2)}) = 9

\* The value is_valid_complete returns: the board is complete and the set of
\* the values of every row, of every column and of every box has 9 members.
is_valid_complete_ret ==
    IF ~is_complete_ret THEN FALSE
    ELSE /\ \A row \in Idx :
              /\ Cardinality({Cell(cells, row, c) : c \in Idx}) = 9
              /\ ~(\E c \in Idx : Cell(cells, row, c) = 0)
         /\ \A col \in Idx :
              Cardinality({Cell(cells, row, col) : row \in Idx}) = 9
         /\ \A i \in 0..2, j \in 0..2 :
              Cardinality({Cell(cells, r, c) : r \in (3 * i)..(3 * i + 2),
                                               c \in (3 * j)..(3 * j + 2)}) = 9

is_valid_complete ==
    /\ last' = Call("is_valid_complete", 0, 0, 0, is_valid_complete_ret, {})
    /\ UNCHANGED <<heap, board, initial_board, solution, won, gen, search, game>>

(***************************************************************************)
(* AdvancedSudokuAISolver: naked singles, hidden singles, hints.           *)
(***************************************************************************)
\* A faulty variant of find_naked_singles that takes every cell of the dict.
naked_singles_of_any_size ==
    LET found == all_possibilities
    IN  [i \in 1..Len(found) |->
            <<found[i][1][1], found[i][1][2], CHOOSE d \in found[i][2] : TRUE>>]

\* The list find_naked_singles returns: for the items of the dict of
\* get_all_possibilities, in their order, whose set has one member, the
\* triple (row, col, list(poss_set)[0]).
naked_singles ==
    LET has_one(item) == Cardinality(item[2]) = 1
        found == SelectSeq(all_possibilities, has_one)
    IN  [i \in 1..Len(found) |->
            <<found[i][1][1], found[i][1][2], CHOOSE d \in found[i][2] : TRUE>>]

find_naked_singles ==
    /\ last' = [Call("find_naked_singles", 0, 0, 0, TRUE, {}) EXCEPT !.list = naked_singles]
    /\ UNCHANGED <<heap, board, initial_board, solution, won, gen, search, game>>

\* list(range(9))
range9 == <<0, 1, 2, 3, 4, 5, 6, 7, 8>>

\* A faulty variant of the loop of find_hidden_singles_in_row that takes the
\* first position of a number with one position or more.
RECURSIVE hidden_singles_in_row_first_position(_, _)
hidden_singles_in_row_first_position(row, num) ==
    IF num > 9 THEN <<>>
    ELSE (IF \E c \in Idx : Cell(cells, row, c) = num THEN <<>>
          ELSE LET fits(col) == Cell(cells, row, col) = 0 /\ num \in possibilities(row, col)
                   possible_positions == SelectSeq(range9, fits)
               IN  IF Len(possible_positions) >= 1
                   THEN << <<row, possible_positions[1], num>> >>
                   ELSE <<>>) \o hidden_singles_in_row_first_position(row, num + 1)

\* find_hidden_singles_in_row: "for num in range(1, 10)" from num on.  A
\* number the row holds is skipped; possible_positions lists the columns of
\* the empty cells of the row whose possibilities have num.
RECURSIVE hidden_singles_in_row_from(_, _)
hidden_singles_in_row_from(row, num) ==
    IF num > 9 THEN <<>>
    ELSE (IF \E c \in Idx : Cell(cells, row, c) = num THEN <<>>
          ELSE LET fits(col) == Cell(cells, row, col) = 0 /\ num \in possibilities(row, col)
                   possible_positions == SelectSeq(range9, fits)
               IN  IF Len(possible_positions) = 1
                   THEN << <<row, possible_positions[1], num>> >>
                   ELSE <<>>) \o hidden_singles_in_row_from(row, num + 1)

\* The list find_hidden_singles_in_row(row) returns.
hidden_singles_in_row(row) == hidden_singles_in_row_from(row, 1)

find_hidden_singles_in_row(row) ==
    /\ last' = [Call("find_hidden_singles_in_row", row, 0, 0, TRUE, {})
                    EXCEPT !.list = hidden_singles_in_row(row)]
    /\ UNCHANGED <<heap, board, initial_board, solution, won, gen, search, game>>

\* A faulty variant of the loop of find_hidden_singles_in_column that takes
\* the first position of a number with one position or more.
RECURSIVE hidden_singles_in_column_first_position(_, _)
hidden_singles_in_column_first_position(col, num) ==
    IF num > 9 THEN <<>>
    ELSE (IF \E r \in Idx : Cell(cells, r, col) = num THEN <<>>
          ELSE LET fits(row) == Cell(cells, row, col) = 0 /\ num \in possibilities(row, col)
                   possible_positions == SelectSeq(range9, fits)
               IN  IF Len(possible_positions) >= 1
                   THEN << <<possible_positions[1], col, num>> >>
                   ELSE <<>>) \o hidden_singles_in_column_first_position(col, num + 1)

\* find_hidden_singles_in_column: the same loop for a column.
RECURSIVE hidden_singles_in_column_from(_, _)
hidden_singles_in_column_from(col, num) ==
    IF num > 9 THEN <<>>
    ELSE (IF \E r \in Idx : Cell(cells, r, col) = num THEN <<>>
          ELSE LET fits(row) == Cell(cells, row, col) = 0 /\ num \in possibilities(row, col)
                   possible_positions == SelectSeq(range9, fits)
               IN  IF Len(possible_positions) = 1
                   THEN << <<possible_positions[1], col, num>> >>
                   ELSE <<>>) \o hidden_singles_in_column_from(col, num + 1)

\* The list find_hidden_singles_in_column(col) returns.
hidden_singles_in_column(col) == hidden_singles_in_column_from(col, 1)

find_hidden_singles_in_column(col) ==
    /\ last' = [Call("find_hidden_singles_in_column", 0, col, 0, TRUE, {})
                    EXCEPT !.list = hidden_singles_in_column(col)]
    /\ UNCHANGED <<heap, board, initial_board, solution, won, gen, search, game>>

\* The string get_advanced_hint returns is modelled by what it is made of:
\* the kind of the deduction and the numbers row + 1, col + 1 and num that
\* the text shows; None by the kind "None" and no numbers.
Hint(kind, single) == [kind |-> kind, shown |-> << <<single[1] + 1, single[2] + 1, single[3]>> >>]
NoHint == [kind |-> "None", shown |-> <<>>]

\* "for col in range(9)" of get_advanced_hint, from col on.
RECURSIVE hint_from_column(_)
hint_from_column(col) ==
    IF col >= 9 THEN NoHint
    ELSE LET hidden_singles == hidden_singles_in_column(col)
         IN  IF hidden_singles # <<>>
             THEN Hint("Hidden Single in Column", hidden_singles[1])
             ELSE hint_from_column(col + 1)

\* "for row in range(9)" of get_advanced_hint, from row on, and what follows
\* the loop.
RECURSIVE hint_from_row(_)
hint_from_row(row) ==
    IF row >= 9 THEN hint_from_column(0)
    ELSE LET hidden_singles == hidden_singles_in_row(row)
         IN  IF hidden_singles # <<>>
             THEN Hint("Hidden Single in Row", hidden_singles[1])
             ELSE hint_from_row(row + 1)

\* A faulty variant of get_advanced_hint that does not look for naked
\* singles.
advanced_hint_no_naked_singles == hint_from_row(0)

\* What get_advanced_hint returns.
advanced_hint ==
    IF naked_singles # <<>>
    THEN Hint("Naked Single", naked_singles[1])
    ELSE hint_from_row(0)

get_advanced_hint ==
    /\ last' = [Call("get_advanced_hint", 0, 0, 0, TRUE, {})
                    EXCEPT !.label = advanced_hint.kind, !.list = advanced_hint.shown]
    /\ UNCHANGED <<heap, board, initial_board, solution, won, gen, search, game>>

(***************************************************************************)
(* SudokuAISolver.find_best_cell_to_fill.                                  *)
(***************************************************************************)
\* A faulty variant that takes the first item of the dict.
best_cell_first_item(items) == items[1]

\* min(items, key=lambda x: len(x[1]) or float('inf')): the first of the
\* items, in the order of the dict, whose key is the least.  The key of an
\* item is the size of its set, and float('inf'), here 10, which no size
\* reaches, when the size is 0.
best_cell(items) ==
    LET key(i) == IF Cardinality(items[i][2]) # 0 THEN Cardinality(items[i][2]) ELSE 10
    IN  items[CHOOSE i \in 1..Len(items) :
                  /\ \A j \in 1..Len(items) : key(i) <= key(j)
                  /\ \A j \in 1..(i - 1) : key(j) > key(i)]

\* What find_best_cell_to_fill returns: None for an empty dict, else the
\* key of the best item if its set is not empty, else None.
best_cell_to_fill ==
    LET items == all_possibilities
    IN  IF Len(items) = 0 THEN None
        ELSE IF best_cell(items)[2] # {} THEN best_cell(items)[1] ELSE None

find_best_cell_to_fill ==
    /\ last' = [Call("find_best_cell_to_fill", 0, 0, 0, TRUE, {}) EXCEPT !.cell = best_cell_to_fill]
    /\ UNCHANGED <<heap, board, initial_board, solution, won, gen, search, game>>

(***************************************************************************)
(* SudokuPuzzleGenerator.generate_puzzle, step by step.                    *)
(*                                                                         *)
(* generate_puzzle fills an empty grid by a randomized backtracking        *)
(* search, clears cells at random until it has cleared cells_to_remove of  *)
(* them and returns SudokuBoard(board), whose constructor runs the solver. *)
(* A grid with 30 to 81 empty cells is beyond what the operator            *)
(* solve_with_backtracking can be evaluated on, so that the two searches   *)
(* run here as state machines, a step at a time: `search` holds the grid   *)
(* that the search works on and its call stack.                            *)
(***************************************************************************)
\* board = [[0] * 9 for _ in range(9)]
EmptyGrid == MakeGrid(LAMBDA r, c : 0)

\* difficulty_map, and difficulty_map.get(difficulty, 40).
difficulty_map == [Easy |-> 30, Medium |-> 40, Hard |-> 50, Expert |-> 60]
cells_to_remove(difficulty) ==
    IF difficulty \in DOMAIN difficulty_map THEN difficulty_map[difficulty] ELSE 40

\* The difficulties asked for.
Difficulties == {"Easy", "Medium", "Hard", "Expert"}

\* random.shuffle(numbers): every shuffle of a run leaves the same list, one
\* of the first NumShuffles lists of ShuffleList.
ShuffleList ==
    << <<1, 2, 3, 4, 5, 6, 7, 8, 9>>,
       <<9, 8, 7, 6, 5, 4, 3, 2, 1>>,
       <<1, 3, 5, 7, 9, 2, 4, 6, 8>> >>
Shuffles == {ShuffleList[i] : i \in 1..Min(NumShuffles, Len(ShuffleList))}

\* (random.randint(0, 8), random.randint(0, 8)): the samples of a run that
\* hit a filled cell follow one of the first NumOrders orders of the 81
\* cells: column by column, row by row backwards, row by row.
\* RemovalOrder(k, i) is the i-th cell, i in 1..81, of the k-th order.
RemovalOrder(k, i) ==
    CASE k = 1 -> <<(i - 1) % 9, (i - 1) \div 9>>
      [] k = 2 -> <<8 - ((i - 1) \div 9), 8 - ((i - 1) % 9)>>
      [] OTHER -> <<(i - 1) \div 9, (i - 1) % 9>>
Orders == 1..Min(NumOrders, 3)

\* The samples that can come next: the next cell of the order of the run,
\* or one of the last NumResample cells cleared, which is empty by now.
Samples(g) ==
    {RemovalOrder(g.order, i) :
        i \in (IF g.removed >= NumResample THEN g.removed - NumResample + 1 ELSE 1)
                  ..(IF g.removed < 81 THEN g.removed + 1 ELSE 81)}

\* A faulty variant of _is_valid without the scan of the box.
is_valid_no_box(b, row, col, num) ==
    /\ ~(\E c \in Idx : Cell(b, row, c) = num)
    /\ ~(\E r \in Idx : Cell(b, r, col) = num)

\* SudokuPuzzleGenerator._is_valid.
is_valid(b, row, col, num) ==
    LET box_row == (row \div 3) * 3
        box_col == (col \div 3) * 3
    IN  /\ ~(\E c \in Idx : Cell(b, row, c) = num)
        /\ ~(\E r \in Idx : Cell(b, r, col) = num)
        /\ ~(\E r \in box_row..(box_row + 2), c \in box_col..(box_col + 2) : Cell(b, r, c) = num)

\* range(1, 10) as a list.
range1_10 == <<1, 2, 3, 4, 5, 6, 7, 8, 9>>

\* A search in progress: the grid it fills in place, the stack of the calls
\* that wait for the call they made, and the state of the innermost call, a
\* call that begins ("call") or one that has got False from the call it made
\* ("failed"); when the outermost call has returned, "done" and what it
\* returned.  A frame holds the cell of the call, its list of numbers and
\* the index i of the number that it has put in the cell.
\* Below, "CHOOSE t \in {e(x) : x \in {v}} : TRUE" is e(v), with v computed
\* once and named x.
StartSearch(b) == [board |-> b, stack |-> <<>>, state |-> "call", ret |-> FALSE]

\* The validity check of the caller: _is_valid for the generator,
\* _is_valid_placement for the solver of the board.
valid(generator, b, row, col, num) ==
    IF generator THEN is_valid(b, row, col, num) ELSE is_valid_placement(b, row, col, num)

\* "for num in numbers: if valid(board, row, col, num)": the index of the
\* first number of the list, from index i on, that is valid for the cell, 0
\* if there is none.
first_valid(b, row, col, numbers, i, generator) ==
    IF \E j \in i..9 : valid(generator, b, row, col, numbers[j])
    THEN CHOOSE j \in i..9 :
             /\ valid(generator, b, row, col, numbers[j])
             /\ \A k \in i..(j - 1) : ~valid(generator, b, row, col, numbers[k])
    ELSE 0

\* The loop of a call, from the index frame.i on: the first valid number is
\* put in the cell and a call is made; without a valid number the loop ends
\* and the call returns False.
search_loop(s, frame, generator) ==
    CHOOSE t \in
        {IF j = 0
         THEN [s EXCEPT !.state = "failed"]
         ELSE [s EXCEPT !.board = SetCell(s.board, frame.row, frame.col, frame.numbers[j]),
                        !.stack = Append(s.stack, [frame EXCEPT !.i = j]),
                        !.state = "call"] :
         j \in {first_valid(s.board, frame.row, frame.col, frame.numbers, frame.i, generator)}} : TRUE

\* A faulty variant of the step that does not set the cell back to 0.
search_step_no_undo(s, numbers, generator) ==
    IF s.state = "call"
    THEN CHOOSE t \in
             {IF empty_cell = None
              THEN [s EXCEPT !.state = "done", !.ret = TRUE, !.stack = <<>>]
              ELSE search_loop(s, [row |-> empty_cell[1], col |-> empty_cell[2],
                                   numbers |-> numbers, i |-> 1], generator) :
              empty_cell \in {find_empty_cell(s.board)}} : TRUE
    ELSE IF s.stack = <<>>
         THEN [s EXCEPT !.state = "done", !.ret = FALSE]
         ELSE CHOOSE t \in
                  {search_loop(back, [frame EXCEPT !.i = frame.i + 1], generator) :
                   frame \in {s.stack[Len(s.stack)]},
                   back \in {[s EXCEPT !.stack = SubSeq(s.stack, 1, Len(s.stack) - 1)]}} : TRUE

\* One step of _solve_with_backtracking and of _fill_board_randomly, which
\* differ in the list of numbers and in the validity check they call; the
\* _find_empty_cell of the generator is that of the board, line by line.
\* A call that begins returns True when no cell is empty, and so does every
\* call that waits for it; else it starts its loop on the first empty cell.
\* A call that has got False sets its cell back to 0 and goes on with its
\* loop; the outermost call that ends its loop returns False.
search_step(s, numbers, generator) ==
    IF s.state = "call"
    THEN CHOOSE t \in
             {IF empty_cell = None
              THEN [s EXCEPT !.state = "done", !.ret = TRUE, !.stack = <<>>]
              ELSE search_loop(s, [row |-> empty_cell[1], col |-> empty_cell[2],
                                   numbers |-> numbers, i |-> 1], generator) :
              empty_cell \in {find_empty_cell(s.board)}} : TRUE
    ELSE IF s.stack = <<>>
         THEN [s EXCEPT !.state = "done", !.ret = FALSE]
         ELSE CHOOSE t \in
                  {search_loop(back, [frame EXCEPT !.i = frame.i + 1], generator) :
                   frame \in {s.stack[Len(s.stack)]},
                   back \in {[s EXCEPT !.board = SetCell(s.board, s.stack[Len(s.stack)].row,
                                                         s.stack[Len(s.stack)].col, 0),
                                       !.stack = SubSeq(s.stack, 1, Len(s.stack) - 1)]}} : TRUE

\* The call generate_puzzle(difficulty), at its first line.
GenInit ==
    \E difficulty \in Difficulties, numbers \in Shuffles :
        /\ gen = [pc |-> "fill", difficulty |-> difficulty, numbers |-> numbers,
                  order |-> 0, board |-> EmptyGrid, cells_to_remove |-> 0, removed |-> 0,
                  row |-> 0, col |-> 0]
        /\ search = StartSearch(EmptyGrid)
        /\ game = None
        /\ heap = <<>>
        /\ board = None
        /\ initial_board = None
        /\ solution = None
        /\ won = FALSE
        /\ last = [Constructed(FALSE) EXCEPT !.op = "generate_puzzle"]

\* A step of _fill_board_randomly(board).
fill_board_randomly ==
    /\ gen # None /\ gen.pc = "fill"
    /\ search.state # "done"
    /\ search' = search_step(search, gen.numbers, TRUE)
    /\ UNCHANGED <<gen, heap, board, initial_board, solution, won, last, game>>

\* _fill_board_randomly has returned, whatever it returned: cells_to_remove
\* is looked up and removed = 0.
start_removing ==
    /\ gen # None /\ gen.pc = "fill"
    /\ search.state = "done"
    /\ \E order \in Orders :
          gen' = [gen EXCEPT !.pc = "remove", !.board = search.board, !.order = order,
                             !.cells_to_remove = cells_to_remove(gen.difficulty),
                             !.removed = 0]
    /\ search' = None
    /\ UNCHANGED <<heap, board, initial_board, solution, won, last, game>>

\* A turn of "while removed < cells_to_remove" with the sample p = (row, col):
\* a filled cell is cleared and counted, an empty one is not.
remove_or_resample(p) ==
    /\ gen # None /\ gen.pc = "remove"
    /\ gen.removed < gen.cells_to_remove
    /\ gen' = IF Cell(gen.board, p[1], p[2]) # 0
              THEN [gen EXCEPT !.row = p[1], !.col = p[2],
                               !.board = SetCell(gen.board, p[1], p[2], 0),
                               !.removed = gen.removed + 1]
              ELSE [gen EXCEPT !.row = p[1], !.col = p[2]]
    /\ UNCHANGED <<search, heap, board, initial_board, solution, won, last, game>>

\* The turns whose sample is a filled cell, and those whose sample is an
\* empty cell.
remove_cell ==
    \E p \in Samples(gen) : Cell(gen.board, p[1], p[2]) # 0 /\ remove_or_resample(p)

resample ==
    \E p \in Samples(gen) : Cell(gen.board, p[1], p[2]) = 0 /\ remove_or_resample(p)

\* A faulty variant that leaves the loop one cell early
\* ("while removed < cells_to_remove - 1").
construct_board_one_early ==
    /\ gen # None /\ gen.pc = "remove"
    /\ gen.removed >= gen.cells_to_remove - 1
    /\ gen' = [gen EXCEPT !.pc = "solve"]
    /\ board' = Ref(1)
    /\ initial_board' = Ref(2)
    /\ solution' = None
    /\ heap' = (Ref(1) :> gen.board) @@ (Ref(2) :> gen.board)
    /\ search' = StartSearch(gen.board)
    /\ UNCHANGED <<won, last, game>>

\* return SudokuBoard(board), up to the call of the solver: the board and the
\* initial snapshot are two deep copies of the grid, the solution is None
\* and the solver starts on a third copy, board_copy.
construct_board ==
    /\ gen # None /\ gen.pc = "remove"
    /\ gen.removed >= gen.cells_to_remove
    /\ gen' = [gen EXCEPT !.pc = "solve"]
    /\ board' = Ref(1)
    /\ initial_board' = Ref(2)
    /\ solution' = None
    /\ heap' = (Ref(1) :> gen.board) @@ (Ref(2) :> gen.board)
    /\ search' = StartSearch(gen.board)
    /\ UNCHANGED <<won, last, game>>

\* A step of _solve_with_backtracking(board_copy).
solve_with_backtracking_step ==
    /\ gen # None /\ gen.pc = "solve"
    /\ search.state # "done"
    /\ search' = search_step(search, range1_10, FALSE)
    /\ UNCHANGED <<gen, heap, board, initial_board, solution, won, last, game>>

\* A faulty variant that keeps the puzzle itself as its solution.
store_solution_keeps_puzzle ==
    /\ gen # None /\ gen.pc = "solve"
    /\ search.state = "done"
    /\ IF search.ret
       THEN /\ solution' = Ref(3)
            /\ heap' = heap @@ (Ref(3) :> gen.board)
       ELSE UNCHANGED <<solution, heap>>
    /\ gen' = [gen EXCEPT !.pc = "done"]
    /\ search' = None
    /\ last' = Constructed(search.ret)
    /\ UNCHANGED <<board, initial_board, won, game>>

\* The solver has returned: board_copy becomes the solution if it returned
\* True, and generate_puzzle returns the board.
store_solution ==
    /\ gen # None /\ gen.pc = "solve"
    /\ search.state = "done"
    /\ IF search.ret
       THEN /\ solution' = Ref(3)
            /\ heap' = heap @@ (Ref(3) :> search.board)
       ELSE UNCHANGED <<solution, heap>>
    /\ gen' = [gen EXCEPT !.pc = "done"]
    /\ search' = None
    /\ last' = Constructed(search.ret)
    /\ UNCHANGED <<board, initial_board, won, game>>

(***************************************************************************)
(* The two searches on their own.                                          *)
(***************************************************************************)
\* The grids the constructor is called with: those of StartGrids, and the
\* grid without a given cell.
SolveGrids == StartGrids \cup {EmptyGrid}

\* SudokuBoard(grid), at the call of the solver: board and initial_board are
\* two deep copies of grid, the solution is None and the solver starts on
\* board_copy.  No generator runs: of its locals, the grid alone means
\* something.
SolveInit ==
    \E grid \in SolveGrids :
        /\ gen = [pc |-> "solve", difficulty |-> "", numbers |-> range1_10,
                  order |-> 0, board |-> grid, cells_to_remove |-> 0, removed |-> 0,
                  row |-> 0, col |-> 0]
        /\ search = StartSearch(grid)
        /\ game = None
        /\ heap = (Ref(1) :> grid) @@ (Ref(2) :> grid)
        /\ board = Ref(1)
        /\ initial_board = Ref(2)
        /\ solution = None
        /\ won = FALSE
        /\ last = [Constructed(FALSE) EXCEPT !.op = "solving"]

(***************************************************************************)
(* SudokuBoard.get_difficulty_level.                                       *)
(***************************************************************************)
\* sum(1 for row in self.board for cell in row if cell == 0)
empty_count == Cardinality({p \in Idx \X Idx : Cell(cells, p[1], p[2]) = 0})

\* A faulty variant with "<" for "<=".
difficulty_level_strict ==
    IF empty_count < 30 THEN "Easy"
    ELSE IF empty_count < 40 THEN "Medium"
    ELSE IF empty_count < 50 THEN "Hard"
    ELSE "Expert"

\* The string get_difficulty_level returns.
difficulty_level ==
    IF empty_count <= 30 THEN "Easy"
    ELSE IF empty_count <= 40 THEN "Medium"
    ELSE IF empty_count <= 50 THEN "Hard"
    ELSE "Expert"

get_difficulty_level ==
    /\ last' = [Call("get_difficulty_level", 0, 0, 0, TRUE, {}) EXCEPT !.label = difficulty_level]
    /\ UNCHANGED <<heap, board, initial_board, solution, won, gen, search, game>>

(***************************************************************************)
(* Vocabulary of the properties.                                           *)
(***************************************************************************)
Cells == Idx \X Idx

\* The 27 units: 9 rows, 9 columns, 9 boxes.
Units ==
    {{<<r, c>> : c \in Idx} : r \in Idx}
    \cup {{<<r, c>> : r \in Idx} : c \in Idx}
    \cup {{<<3 * i + r, 3 * j + c>> : r \in 0..2, c \in 0..2} : i \in 0..2, j \in 0..2}

\* The cells of the units of p: its row, its column and its box.
UnitCells == [p \in Cells |-> UNION {u \in Units : p \in u}]

\* No unit of g holds a non-zero digit twice.
\* (as many distinct non-zero values as non-empty cells, unit by unit)
NoDuplicates(g) ==
    \A u \in Units :
        LET filled == {p \in u : Cell(g, p[1], p[2]) # 0}
        IN  Cardinality({Cell(g, p[1], p[2]) : p \in filled}) = Cardinality(filled)

\* g is a solved grid: every unit holds every digit 1..9.
ValidComplete(g) ==
    \A u \in Units : {Cell(g, p[1], p[2]) : p \in u} = Digits

\* The grid self.solution refers to, None when there is none.
solution_grid == IF solution = None THEN None ELSE heap[solution]

\* The last call was a place_number call.
Placed == last.op = "place_number"

(***************************************************************************)
(* SudokuGame: reset_game and the handlers of the events.                  *)
(***************************************************************************)
GRID_SIZE == 9
CELL_SIZE == 70
GRID_TOP_LEFT_X == 50
GRID_TOP_LEFT_Y == 100

\* The number of cells of ClickCellList the mouse clicks on.
NumClickCells == 3

\* With 40 cells cleared, (0,0) and (1,0) are empty and (8,8) is given when
\* the cells are cleared down the columns from (0,0), (8,8) is empty and the
\* two others are given when they are cleared backwards from (8,8), and
\* (4,4) is given either way.
ClickCellList == << <<0, 0>>, <<8, 8>>, <<1, 0>>, <<4, 4>> >>
ClickCells == {ClickCellList[i] : i \in 1..Min(NumClickCells, Len(ClickCellList))}

\* The middle of a cell on the screen, as (x, y).
Centre(p) == <<GRID_TOP_LEFT_X + p[2] * CELL_SIZE + CELL_SIZE \div 2,
               GRID_TOP_LEFT_Y + p[1] * CELL_SIZE + CELL_SIZE \div 2>>

\* The positions clicked on: the middle of the cells of ClickCells, the
\* middle of each of the five buttons, and a point right of the grid.
ClickPoints ==
    {Centre(p) : p \in ClickCells}
        \cup {<<90, 765>>, <<245, 765>>, <<400, 765>>, <<555, 765>>, <<690, 765>>}
        \cup {<<700, 400>>}

\* The keys pressed: digits (num of PlayNums as the key K_0 + num), and the
\* keys the handler names, and one it does not name.
K_digit == <<"1", "2", "3", "4", "5", "6", "7", "8", "9">>
KeysPressed ==
    {K_digit[num] : num \in PlayNums \ {0}}
        \cup {"DELETE", "BACKSPACE", "h", "a", "p", "r", "s", "n", "i", "x"}

\* The fields reset_game assigns after generate_puzzle has returned.  The
\* message and the timer values are left out: no handler reads them, but for
\* game_start_time, which reset_game sets to the time of day (never 0).
NewGame ==
    [selected_cell |-> None, hint_cell |-> None, game_over |-> FALSE,
     show_hints |-> FALSE, paused |-> FALSE]

\* The record of an event that was handled.
Handled(op, key, row, col, num, ret, poss) ==
    [Call(op, row, col, num, ret, poss) EXCEPT !.label = key]

\* reset_game: generate_puzzle('Medium') is called and runs step by step
\* (fill_board_randomly .. store_solution); no event is handled before
\* reset_game returns, so the fields it assigns afterwards are written here.
reset_game ==
    \E numbers \in Shuffles :
        /\ gen' = [pc |-> "fill", difficulty |-> "Medium", numbers |-> numbers,
                   order |-> 0, board |-> EmptyGrid, cells_to_remove |-> 0, removed |-> 0,
                   row |-> 0, col |-> 0]
        /\ search' = StartSearch(EmptyGrid)
        /\ heap' = <<>>
        /\ board' = None
        /\ initial_board' = None
        /\ solution' = None
        /\ won' = FALSE
        /\ game' = NewGame
        /\ last' = [Constructed(FALSE) EXCEPT !.op = "generate_puzzle"]

\* SudokuGame.__init__: paused = False, then reset_game().
GameInit ==
    \E numbers \in Shuffles :
        /\ gen = [pc |-> "fill", difficulty |-> "Medium", numbers |-> numbers,
                  order |-> 0, board |-> EmptyGrid, cells_to_remove |-> 0, removed |-> 0,
                  row |-> 0, col |-> 0]
        /\ search = StartSearch(EmptyGrid)
        /\ heap = <<>>
        /\ board = None
        /\ initial_board = None
        /\ solution = None
        /\ won = FALSE
        /\ game = NewGame
        /\ last = [Constructed(FALSE) EXCEPT !.op = "generate_puzzle"]

\* toggle_pause: game_start_time is set, so the early return is not taken.
toggle_pause ==
    /\ game' = [game EXCEPT !.paused = ~game.paused]
    /\ last' = Handled("toggle_pause", "", 0, 0, 0, TRUE, {})
    /\ UNCHANGED <<heap, board, initial_board, solution, won, gen, search>>

\* show_help writes the message only.
show_help ==
    /\ last' = Handled("show_help", "", 0, 0, 0, TRUE, {})
    /\ UNCHANGED <<heap, board, initial_board, solution, won, gen, search, game>>

\* Whether the position is within the grid, and the cell it is in.
in_grid(x, y) ==
    LET grid_x == x - GRID_TOP_LEFT_X
        grid_y == y - GRID_TOP_LEFT_Y
    IN  /\ 0 <= grid_x /\ grid_x < GRID_SIZE * CELL_SIZE
        /\ 0 <= grid_y /\ grid_y < GRID_SIZE * CELL_SIZE

cell_at(x, y) ==
    <<(y - GRID_TOP_LEFT_Y) \div CELL_SIZE, (x - GRID_TOP_LEFT_X) \div CELL_SIZE>>

\* A faulty variant that selects the cell whatever it holds.
select_cell_whatever_it_holds(row, col) ==
    [game EXCEPT !.selected_cell = <<row, col>>, !.hint_cell = None]

\* The game fields after a click in the cell (row, col): only a cell that
\* is empty on the board is selected.
select_cell(row, col) ==
    IF Cell(cells, row, col) = 0
    THEN [game EXCEPT !.selected_cell = <<row, col>>, !.hint_cell = None]
    ELSE [game EXCEPT !.selected_cell = None]

\* The button at a position, by the chain of tests of handle_button_clicks.
button_at(x, y) ==
    IF 20 < x /\ x < 160 /\ 740 < y /\ y < 790 THEN "Hint"
    ELSE IF 175 < x /\ x < 315 /\ 740 < y /\ y < 790 THEN "New Game"
    ELSE IF 330 < x /\ x < 470 /\ 740 < y /\ y < 790 THEN "Pause"
    ELSE IF 485 < x /\ x < 625 /\ 740 < y /\ y < 790 THEN "Solve"
    ELSE IF 640 < x /\ x < 740 /\ 740 < y /\ y < 790 THEN "Help"
    ELSE ""

handle_button_clicks(x, y) ==
    CASE button_at(x, y) = "Hint" ->
            /\ game' = [game EXCEPT !.show_hints = ~game.show_hints]
            /\ last' = Handled("handle_button_clicks", "Hint", 0, 0, 0, TRUE, {})
            /\ UNCHANGED <<heap, board, initial_board, solution, won, gen, search>>
      [] button_at(x, y) = "New Game" -> reset_game
      [] button_at(x, y) = "Pause" -> toggle_pause
      [] button_at(x, y) = "Solve" -> solve_puzzle
      [] button_at(x, y) = "Help" -> show_help
      [] OTHER ->
            /\ last' = Handled("handle_button_clicks", "", 0, 0, 0, FALSE, {})
            /\ UNCHANGED <<heap, board, initial_board, solution, won, gen, search, game>>

\* handle_mouse_click(pos): the grid, then the buttons.  The grid ends at
\* y = 730 and the buttons begin at y = 740, so a click in the grid is on no
\* button and handle_button_clicks does nothing after it.
handle_mouse_click(x, y) ==
    IF in_grid(x, y)
    THEN /\ game' = select_cell(cell_at(x, y)[1], cell_at(x, y)[2])
         /\ last' = [Handled("handle_mouse_click", button_at(x, y), cell_at(x, y)[1],
                             cell_at(x, y)[2], 0, TRUE, {})
                       EXCEPT !.cell = cell_at(x, y)]
         /\ UNCHANGED <<heap, board, initial_board, solution, won, gen, search>>
    ELSE handle_button_clicks(x, y)

\* A key that changes nothing.
key_ignored(key) ==
    /\ last' = Handled("handle_key_press", key, 0, 0, 0, FALSE, {})
    /\ UNCHANGED <<heap, board, initial_board, solution, won, gen, search, game>>

\* A key for the selected cell (row, col): a digit is placed with
\* place_number, and the game is won when the board is then complete and
\* valid; Delete and Backspace clear the cell; h and a only show a message.
cell_key(key, row, col) ==
    IF \E num \in 1..9 : K_digit[num] = key
    THEN LET num == CHOOSE n \in 1..9 : K_digit[n] = key
         IN  /\ heap' = IF place_number_ret(row, col, num)
                        THEN [heap EXCEPT ![board] = SetCell(cells, row, col, num)]
                        ELSE heap
             /\ UNCHANGED <<board, initial_board, solution, gen, search, game>>
             /\ won' = IF /\ place_number_ret(row, col, num)
                          /\ is_complete_ret'
                          /\ is_valid_complete_ret'
                       THEN TRUE
                       ELSE won
             /\ last' = Handled("handle_key_press", key, row, col, num,
                                place_number_ret(row, col, num), {})
    ELSE IF key \in {"DELETE", "BACKSPACE"}
    THEN /\ heap' = [heap EXCEPT ![board] = SetCell(cells, row, col, 0)]
         /\ last' = Handled("handle_key_press", key, row, col, 0,
                            place_number_ret(row, col, 0), {})
         /\ UNCHANGED <<board, initial_board, solution, won, gen, search, game>>
    ELSE IF key = "h"
    THEN /\ game' = IF Cell(cells, row, col) = 0
                    THEN [game EXCEPT !.hint_cell = <<row, col>>]
                    ELSE game
         /\ last' = Handled("handle_key_press", key, row, col, 0, TRUE,
                            possibilities(row, col))
         /\ UNCHANGED <<heap, board, initial_board, solution, won, gen, search>>
    ELSE IF key = "a"
    THEN /\ last' = Handled("handle_key_press", key, row, col, 0, TRUE,
                            possibilities(row, col))
         /\ UNCHANGED <<heap, board, initial_board, solution, won, gen, search, game>>
    ELSE key_ignored(key)

\* handle_key_press(key): the keys of the game first, then the keys of the
\* selected cell, if a cell is selected.
handle_key_press(key) ==
    CASE key = "p" -> toggle_pause
      [] key = "r" -> IF game.paused THEN toggle_pause ELSE key_ignored(key)
      [] key = "s" -> solve_puzzle
      [] key = "n" -> reset_game
      [] key = "i" -> show_help
      [] OTHER ->
            IF game.selected_cell = None \/ game.game_over
            THEN key_ignored(key)
            ELSE cell_key(key, game.selected_cell[1], game.selected_cell[2])

(***************************************************************************)
(* The specification.                                                      *)
(***************************************************************************)
Next ==
    \/ \E p \in PlayCells, num \in PlayNums : place_number(p[1], p[2], num)
    \/ reset
    \/ solve_puzzle
    \/ \E p \in PlayCells : get_possibilities(p[1], p[2])

Spec == Init /\ [][Next]_vars

\* The queries of a board, on the boards constructed from QueryGrids and on
\* what place_number makes of them.
QueryNext ==
    \/ \E p \in PlayCells, num \in PlayNums : place_number(p[1], p[2], num)
    \/ get_all_possibilities
    \/ is_complete
    \/ is_valid_complete
    \/ find_naked_singles
    \/ \E row \in Idx : find_hidden_singles_in_row(row)
    \/ \E col \in Idx : find_hidden_singles_in_column(col)
    \/ get_advanced_hint
    \/ find_best_cell_to_fill

QuerySpec == QueryInit /\ [][QueryNext]_vars

\* A call of generate_puzzle, and the board it returns, played on.
GenNext ==
    \/ fill_board_randomly
    \/ start_removing
    \/ remove_cell
    \/ resample
    \/ construct_board
    \/ solve_with_backtracking_step
    \/ store_solution
    \/ gen.pc = "done" /\ \E p \in PlayCells, num \in PlayNums : place_number(p[1], p[2], num)
    \/ gen.pc = "done" /\ get_difficulty_level

GenSpec == GenInit /\ [][GenNext]_vars

\* The same with progress: the program takes its next step, and the sampling
\* is fair, so that a sample of a filled cell comes in the end.
GenFairSpec ==
    /\ GenSpec
    /\ WF_vars(fill_board_randomly)
    /\ WF_vars(start_removing)
    /\ WF_vars(remove_cell)
    /\ WF_vars(construct_board)
    /\ WF_vars(solve_with_backtracking_step)
    /\ WF_vars(store_solution)

\* _fill_board_randomly on the empty grid and the solver of the constructor
\* on the grids of SolveGrids, each from its call to its return.
SearchInit == GenInit \/ SolveInit

SearchNext ==
    \/ fill_board_randomly
    \/ solve_with_backtracking_step
    \/ store_solution

SearchSpec == SearchInit /\ [][SearchNext]_vars

\* The same with progress: a search that has a next step takes it.
SearchFairSpec ==
    /\ SearchSpec
    /\ WF_vars(fill_board_randomly)
    /\ WF_vars(solve_with_backtracking_step)
    /\ WF_vars(store_solution)

\* A game: SudokuGame.__init__ and the events of run, one at a time.  An
\* event is handled when reset_game has returned.
GameNext ==
    \/ fill_board_randomly
    \/ start_removing
    \/ remove_cell
    \/ resample
    \/ construct_board
    \/ solve_with_backtracking_step
    \/ store_solution
    \/ gen.pc = "done" /\ \E pos \in ClickPoints : handle_mouse_click(pos[1], pos[2])
    \/ gen.pc = "done" /\ \E key \in KeysPressed : handle_key_press(key)

GameSpec == GameInit /\ [][GameNext]_vars

(***************************************************************************)
(* Properties of place_number.                                             *)
(***************************************************************************)
\* Some cell other than p, in a unit of p, holds num in g.
OtherCellHolds(g, p, num) ==
    \E q \in UnitCells[p] \ {p} : Cell(g, q[1], q[2]) = num

\* Some cell in a unit of p, p itself included, holds num in g.
SomeCellHolds(g, p, num) ==
    \E q \in UnitCells[p] : Cell(g, q[1], q[2]) = num

\* C1 as stated: a call place_number(row, col, value) with value in 1..9
\* succeeds, and sets the cell to value, if and only if no other cell of the
\* row, the column or the box holds value.
C1_AsStated ==
    [][(last'.op = "place_number" /\ last'.num \in Digits) =>
          /\ last'.ret <=> ~OtherCellHolds(cells, <<last'.row, last'.col>>, last'.num)
          /\ last'.ret => Cell(cells', last'.row, last'.col) = last'.num]_vars

\* C1 as amended: a call place_number(row, col, value) with value in 1..9
\* succeeds, and sets the cell to value, if and only if no cell of the row,
\* the column or the box holds value, the cell (row, col) itself included: a
\* call that places the value the cell already holds is rejected.
C1_PlaceIffNoCellHolds ==
    [][(last'.op = "place_number" /\ last'.num \in Digits) =>
          /\ last'.ret <=> ~SomeCellHolds(cells, <<last'.row, last'.col>>, last'.num)
          /\ last'.ret => Cell(cells', last'.row, last'.col) = last'.num]_vars

\* A digit has been placed on a cell that held another digit.
C1_Witness ==
    /\ Placed /\ last.ret /\ last.num \in Digits
    /\ Cell(initial, last.row, last.col) \notin {0, last.num}

\* C2: a rejected place_number call returns failure and changes no cell of
\* the board, of the initial snapshot or of the solution, and the same call
\* made again is rejected again.
C2_RejectedChangesNothing ==
    [][(last'.op = "place_number") =>
          /\ ~last'.ret =>
                /\ cells' = cells
                /\ initial' = initial
                /\ solution_grid' = solution_grid
          /\ (Placed /\ ~last.ret /\ last'.again) => ~last'.ret]_vars

\* A rejected call has been made twice in a row.
C2_Witness == Placed /\ ~last.ret /\ last.again

\* C3: place_number(row, col, 0) succeeds and leaves the cell 0, and every
\* place_number call leaves every other cell as it was.
C3_ClearAndFrame ==
    [][(last'.op = "place_number") =>
          /\ last'.num = 0 => (last'.ret /\ Cell(cells', last'.row, last'.col) = 0)
          /\ cells' = SetCell(cells, last'.row, last'.col, Cell(cells', last'.row, last'.col))]_vars

\* A given cell has been cleared.
C3_Witness ==
    /\ Placed /\ last.num = 0 /\ last.ret
    /\ Cell(initial, last.row, last.col) # 0
    /\ Cell(cells, last.row, last.col) = 0

\* C4 as stated: whatever grid the board was constructed from, after a
\* successful place_number call no unit of the board holds a non-zero digit
\* twice.
C4_AsStated == (Placed /\ last.ret) => NoDuplicates(cells)

\* C4 as amended: for a board constructed from a grid no unit of which holds
\* a non-zero digit twice, after a successful place_number call no unit of
\* the board holds a non-zero digit twice.
C4_NoDuplicatesAfterPlace ==
    (Placed /\ last.ret /\ NoDuplicates(initial)) => NoDuplicates(cells)

\* A digit has been placed on a board constructed without duplicates.
C4_Witness ==
    /\ Placed /\ last.ret /\ last.num \in Digits
    /\ NoDuplicates(initial)

(***************************************************************************)
(* Properties of reset and of the two snapshots.                           *)
(***************************************************************************)
\* C5: reset makes the board equal to the initial snapshot, cell for cell,
\* and a second reset right after the first changes nothing.
C5_ResetRestores ==
    [][(last'.op = "reset") =>
          /\ cells' = initial
          /\ last.op = "reset" =>
                (cells' = cells /\ initial' = initial /\ solution_grid' = solution_grid)]_vars

\* reset has been called twice in a row, after an auto-solve.
C5_Witness == last.op = "reset" /\ last.again /\ won

\* C6: no place_number, reset or solve_puzzle call changes the initial
\* snapshot or the solution.
C6_SnapshotsKeepValues ==
    [][initial' = initial /\ solution_grid' = solution_grid]_vars

\* A cell has been cleared after an auto-solve copied the solution into the
\* board.
C6_Witness ==
    /\ Placed /\ last.ret /\ won
    /\ solution # None
    /\ cells # solution_grid
    /\ \E p \in Cells : Cell(cells, p[1], p[2]) # Cell(initial, p[1], p[2])

(***************************************************************************)
(* Properties of the constructor and its solver.                           *)
(***************************************************************************)
\* s holds the digit of g wherever g holds one.
Extends(s, g) ==
    \A p \in Cells : Cell(g, p[1], p[2]) # 0 => Cell(s, p[1], p[2]) = Cell(g, p[1], p[2])

EmptyCells(g) == {p \in Cells : Cell(g, p[1], p[2]) = 0}

\* The grids that fill the cells `holes` of g, one cell at a time, with a
\* digit that no cell in a unit of the cell holds yet (a digit that one holds
\* cannot be part of a valid completion).
RECURSIVE Fillings(_, _)
Fillings(g, holes) ==
    IF holes = {} THEN {g}
    ELSE LET h == CHOOSE x \in holes : TRUE
         IN  UNION {Fillings(SetCell(g, h[1], h[2], d), holes \ {h}) :
                        d \in {x \in Digits : ~SomeCellHolds(g, h, x)}}

\* Some valid complete grid extends g.
HasCompletion(g) == \E f \in Fillings(g, EmptyCells(g)) : ValidComplete(f)

\* C7: the solution of a board that has one holds the digit of the initial
\* snapshot at every cell where the snapshot holds one.
C7_SolutionExtendsInitial ==
    solution # None => Extends(solution_grid, initial)

\* A board constructed from a grid with empty cells has a solution.
C7_Witness ==
    /\ last.op = "init" /\ solution # None
    /\ Cardinality(EmptyCells(initial)) >= 2
    /\ \E p \in Cells : Cell(initial, p[1], p[2]) # 0

\* C8 as stated: the solution of a board that has one is a solved grid,
\* whatever grid with values in 0..9 the board was constructed from.
C8_AsStated ==
    solution # None => ValidComplete(solution_grid)

\* C9: a board constructed from a grid that some valid complete grid extends
\* has a solution; it has none only if the grid has no valid completion.
C9_SolverComplete ==
    last.op = "init" => (HasCompletion(initial) => solution # None)

\* A board has been constructed from a grid on which the solver had to take
\* back its first choice for (3,7), and it has a solution.
C9_Witness ==
    /\ last.op = "init" /\ solution # None
    /\ {<<3, 7>>, <<3, 8>>, <<6, 7>>} \subseteq EmptyCells(initial)
    /\ Cell(solution_grid, 3, 7) = 9
    /\ HasCompletion(initial)

(***************************************************************************)
(* Properties of get_possibilities.                                        *)
(***************************************************************************)
\* The digits that the cell p of g can take: none when the cell is filled,
\* else those that no cell of its row, its column or its box holds.
Candidates(g, p) ==
    IF Cell(g, p[1], p[2]) # 0 THEN {}
    ELSE {d \in Digits : ~SomeCellHolds(g, p, d)}

\* C10: get_possibilities(row, col) returns the empty set for a filled cell
\* and, for an empty cell, exactly the digits of 1..9 that no cell of the
\* row, the column or the box holds; it changes no grid.
C10_PossibilitiesExact ==
    [][(last'.op = "get_possibilities") =>
          /\ last'.poss = Candidates(cells, <<last'.row, last'.col>>)
          /\ cells' = cells
          /\ initial' = initial
          /\ solution_grid' = solution_grid]_vars

\* get_possibilities has returned more than one digit for an empty cell.
C10_Witness ==
    /\ last.op = "get_possibilities"
    /\ Cell(cells, last.row, last.col) = 0
    /\ Cardinality(last.poss) >= 2

(***************************************************************************)
(* Properties of get_all_possibilities.                                    *)
(***************************************************************************)
\* The keys of a dict.
Keys(d) == {d[i][1] : i \in 1..Len(d)}

\* C11: get_all_possibilities returns a dict whose keys are exactly the empty
\* cells that have a candidate, each once, each mapped to what
\* get_possibilities returns for it; a filled cell and an empty cell without
\* a candidate are no keys.  It changes no grid.
C11_AllPossibilities ==
    [][(last'.op = "get_all_possibilities") =>
          LET d == last'.dict
          IN  /\ Keys(d) = {p \in Cells : Cell(cells, p[1], p[2]) = 0 /\ Candidates(cells, p) # {}}
              /\ Len(d) = Cardinality(Keys(d))
              /\ \A i \in 1..Len(d) :
                    /\ d[i][2] = possibilities(d[i][1][1], d[i][1][2])
                    /\ d[i][2] = Candidates(cells, d[i][1])
              /\ cells' = cells
              /\ initial' = initial
              /\ solution_grid' = solution_grid]_vars

\* get_all_possibilities has returned a dict with a key, for a board that has
\* an empty cell without a candidate.
C11_Witness ==
    /\ last.op = "get_all_possibilities"
    /\ Len(last.dict) >= 1
    /\ \E p \in Cells : Cell(cells, p[1], p[2]) = 0 /\ Candidates(cells, p) = {}

(***************************************************************************)
(* Properties of is_complete and is_valid_complete.                        *)
(***************************************************************************)
\* The 9 rows and the 9 boxes.
RowUnits == {{<<r, c>> : c \in Idx} : r \in Idx}
BoxUnits == {{<<3 * i + r, 3 * j + c>> : r \in 0..2, c \in 0..2} : i \in 0..2, j \in 0..2}

\* Every cell of g holds a value of 0..9.
InRange(g) == \A p \in Cells : Cell(g, p[1], p[2]) \in 0..9

\* C12: on a board whose cells hold values of 0..9, is_valid_complete returns
\* True if and only if no cell holds 0 and every row, every column and every
\* box holds every digit 1..9; is_complete returns True if and only if no
\* cell holds 0.
C12_CompleteAndValid ==
    [][/\ (last'.op = "is_valid_complete" /\ InRange(cells)) =>
             (last'.ret <=> (EmptyCells(cells) = {} /\ ValidComplete(cells)))
       /\ (last'.op = "is_complete") => (last'.ret <=> EmptyCells(cells) = {})]_vars

\* is_valid_complete has returned False for a complete board with values of
\* 1..9 whose rows and boxes hold every digit.
C12_Witness ==
    /\ last.op = "is_valid_complete" /\ ~last.ret
    /\ InRange(cells) /\ EmptyCells(cells) = {}
    /\ \A u \in RowUnits \cup BoxUnits : {Cell(cells, p[1], p[2]) : p \in u} = Digits

(***************************************************************************)
(* Properties of solve_puzzle.                                             *)
(***************************************************************************)
\* C15: after solve_puzzle on a board that has a solution, the board equals
\* the solution cell for cell, whatever it held before; on a board without a
\* solution, solve_puzzle leaves every cell as it was.
C15_SolvePuzzle ==
    [][(last'.op = "solve_puzzle") =>
          /\ solution # None => cells' = solution_grid
          /\ solution = None => cells' = cells
          /\ initial' = initial
          /\ solution_grid' = solution_grid]_vars

\* solve_puzzle has been called on a board without a solution on which the
\* player had changed a cell, and the change is still there.
C15_Witness ==
    /\ last.op = "solve_puzzle"
    /\ solution = None
    /\ cells # initial

(***************************************************************************)
(* Properties of the constructor on malformed grids.                       *)
(***************************************************************************)
\* C16 as stated: the constructor makes no board from a grid that holds a
\* value outside 0..9, so that every board there is has been constructed from
\* a grid with values of 0..9.
C16_AsStated == InRange(initial)

(***************************************************************************)
(* Properties of the naked singles, the hidden singles and the hints.      *)
(***************************************************************************)
\* The members of a list.
ListSet(l) == {l[i] : i \in 1..Len(l)}

\* The triples <<row, col, d>> with (row, col) an empty cell of g whose
\* candidates are d and nothing else.
NakedSingles(g) ==
    UNION {{<<p[1], p[2], d>> : d \in (IF Cardinality(Candidates(g, p)) = 1
                                       THEN Candidates(g, p) ELSE {})} :
              p \in EmptyCells(g)}

\* The columns of the cells of the row `row` of g that have d as a candidate,
\* and the rows of the cells of the column `col` that have.
FitsInRow(g, row, d) == {c \in Idx : d \in Candidates(g, <<row, c>>)}
FitsInColumn(g, col, d) == {r \in Idx : d \in Candidates(g, <<r, col>>)}

\* The triples <<row, col, d>> with d a digit the row `row` of g does not
\* hold and (row, col) the only cell of the row that has d as a candidate.
HiddenInRow(g, row) ==
    UNION {{<<row, c, d>> : c \in (IF Cardinality(FitsInRow(g, row, d)) = 1
                                   THEN FitsInRow(g, row, d) ELSE {})} :
              d \in {x \in Digits : \A c \in Idx : Cell(g, row, c) # x}}

\* The same for the column `col`.
HiddenInColumn(g, col) ==
    UNION {{<<r, col, d>> : r \in (IF Cardinality(FitsInColumn(g, col, d)) = 1
                                   THEN FitsInColumn(g, col, d) ELSE {})} :
              d \in {x \in Digits : \A r \in Idx : Cell(g, r, col) # x}}

\* The least member of a non-empty set of numbers.
Least(S) == CHOOSE x \in S : \A y \in S : x <= y

\* The deduction that a hint shows, with the indices of the board.
Shown(l) == <<l[1][1] - 1, l[1][2] - 1, l[1][3]>>

\* C18: get_advanced_hint reports a naked single if there is one; else a
\* hidden single of the lowest row that has one, if a row has one; else a
\* hidden single of the lowest column that has one, if a column has one; it
\* returns None if and only if there is no naked single and no hidden single
\* in any row or column.
C18_HintPriority ==
    [][(last'.op = "get_advanced_hint") =>
          LET naked == NakedSingles(cells)
              rows == {r \in Idx : HiddenInRow(cells, r) # {}}
              columns == {c \in Idx : HiddenInColumn(cells, c) # {}}
              kind == last'.label
          IN  /\ naked # {} =>
                    (kind = "Naked Single" /\ Shown(last'.list) \in naked)
              /\ (naked = {} /\ rows # {}) =>
                    /\ kind = "Hidden Single in Row"
                    /\ Shown(last'.list) \in HiddenInRow(cells, Least(rows))
              /\ (naked = {} /\ rows = {} /\ columns # {}) =>
                    /\ kind = "Hidden Single in Column"
                    /\ Shown(last'.list) \in HiddenInColumn(cells, Least(columns))
              /\ kind = "None" <=> (naked = {} /\ rows = {} /\ columns = {})
              /\ cells' = cells]_vars

\* get_advanced_hint has reported a hidden single of a row on a board that has
\* hidden singles in a higher row and in a column as well, and no naked
\* single.
C18_Witness ==
    /\ last.op = "get_advanced_hint"
    /\ last.label = "Hidden Single in Row"
    /\ NakedSingles(cells) = {}
    /\ \E r \in Idx : r > Shown(last.list)[1] /\ HiddenInRow(cells, r) # {}
    /\ \E c \in Idx : HiddenInColumn(cells, c) # {}

\* C19 as stated: find_naked_singles returns the triples (row, col, d) with
\* (row, col) empty and {d} its candidate set, one per such cell and no
\* other; and on a board whose only empty cell is (0,0), with 2..9 in row 0,
\* it returns [(0, 0, 1)].
C19_AsStated ==
    [][(last'.op = "find_naked_singles") =>
          /\ ListSet(last'.list) = NakedSingles(cells)
          /\ Len(last'.list) = Cardinality(NakedSingles(cells))
          /\ (EmptyCells(cells) = {<<0, 0>>} /\ {Cell(cells, 0, c) : c \in 1..8} = 2..9)
                => last'.list = << <<0, 0, 1>> >>]_vars

\* C19 as amended: find_naked_singles returns the triples (row, col, d) with
\* (row, col) empty and {d} its candidate set, one per such cell and no
\* other; and on a board whose only empty cell is (0,0), with 2..9 in row 0
\* and no 1 in column 0 or in the box of (0,0), it returns [(0, 0, 1)].
C19_NakedSingles ==
    [][(last'.op = "find_naked_singles") =>
          /\ ListSet(last'.list) = NakedSingles(cells)
          /\ Len(last'.list) = Cardinality(NakedSingles(cells))
          /\ (/\ EmptyCells(cells) = {<<0, 0>>}
              /\ {Cell(cells, 0, c) : c \in 1..8} = 2..9
              /\ ~SomeCellHolds(cells, <<0, 0>>, 1))
                => last'.list = << <<0, 0, 1>> >>]_vars

\* find_naked_singles has returned [(0, 0, 1)] for a board whose only empty
\* cell is (0,0).
C19_Witness ==
    /\ last.op = "find_naked_singles"
    /\ EmptyCells(cells) = {<<0, 0>>}
    /\ last.list = << <<0, 0, 1>> >>

\* C20: find_hidden_singles_in_row(row) returns the triples (row, col, d)
\* with d a digit that the row does not hold and (row, col) the only empty
\* cell of the row that has d as a candidate, each once and no other triple;
\* find_hidden_singles_in_column(col) does the same for the column.
C20_HiddenSingles ==
    [][/\ (last'.op = "find_hidden_singles_in_row") =>
             /\ ListSet(last'.list) = HiddenInRow(cells, last'.row)
             /\ Len(last'.list) = Cardinality(HiddenInRow(cells, last'.row))
       /\ (last'.op = "find_hidden_singles_in_column") =>
             /\ ListSet(last'.list) = HiddenInColumn(cells, last'.col)
             /\ Len(last'.list) = Cardinality(HiddenInColumn(cells, last'.col))]_vars

\* find_hidden_singles_in_row has returned a hidden single for a row that
\* misses another digit, which two of its cells have as a candidate.
C20_Witness ==
    /\ last.op = "find_hidden_singles_in_row"
    /\ Len(last.list) >= 1
    /\ \E d \in Digits : Cardinality(FitsInRow(cells, last.row, d)) >= 2

(***************************************************************************)
(* Properties of generate_puzzle and of get_difficulty_level.              *)
(***************************************************************************)
\* generate_puzzle has returned its board.
Returned == gen.pc = "done"

\* generate_puzzle has returned and no call has followed.
JustReturned == Returned /\ last.op = "init"

\* C13: generate_puzzle(difficulty) terminates when the sampling is fair,
\* and the board it returns has exactly 30 empty cells in its initial grid
\* for 'Easy', 40 for 'Medium', 50 for 'Hard' and 60 for 'Expert', with
\* cells equal to initial.
C13_GeneratePuzzle ==
    /\ <>Returned
    /\ [](JustReturned =>
             /\ board # None /\ initial_board # None
             /\ cells = initial
             /\ Cardinality(EmptyCells(initial)) =
                    (CASE gen.difficulty = "Easy" -> 30
                       [] gen.difficulty = "Medium" -> 40
                       [] gen.difficulty = "Hard" -> 50
                       [] gen.difficulty = "Expert" -> 60))

\* generate_puzzle('Expert') has returned a board with 60 empty cells, the
\* last of them cleared by the last of its samples.
C13_Witness ==
    /\ JustReturned
    /\ gen.difficulty = "Expert"
    /\ Cardinality(EmptyCells(initial)) = 60
    /\ <<gen.row, gen.col>> \in EmptyCells(initial)

\* C14: every board generate_puzzle returns has a solution, which is a valid
\* complete grid that agrees with every non-zero cell of the puzzle.
C14_GeneratedSolution ==
    Returned =>
        /\ solution # None
        /\ ValidComplete(solution_grid)
        /\ \A p \in Cells \ EmptyCells(initial) :
               Cell(solution_grid, p[1], p[2]) = Cell(initial, p[1], p[2])

\* generate_puzzle has returned a board with 60 empty cells and a solution.
C14_Witness ==
    /\ JustReturned
    /\ solution # None
    /\ last.ret
    /\ Cardinality(EmptyCells(cells)) = 60
    /\ ValidComplete(solution_grid)

\* C17: get_difficulty_level returns 'Easy' when the cells grid has n <= 30
\* empty cells, 'Medium' when 31 <= n <= 40, 'Hard' when 41 <= n <= 50 and
\* 'Expert' when n >= 51, and changes nothing of the board.
C17_DifficultyLevel ==
    [][(last'.op = "get_difficulty_level") =>
           LET n == Cardinality(EmptyCells(cells))
           IN  /\ n <= 30 => last'.label = "Easy"
               /\ (31 <= n /\ n <= 40) => last'.label = "Medium"
               /\ (41 <= n /\ n <= 50) => last'.label = "Hard"
               /\ n >= 51 => last'.label = "Expert"
               /\ UNCHANGED <<heap, board, initial_board, solution>>]_vars

\* get_difficulty_level has returned 'Medium' for a board with 31 empty
\* cells, one more than the puzzle had.
C17_Witness ==
    /\ last.op = "get_difficulty_level"
    /\ last.label = "Medium"
    /\ Cardinality(EmptyCells(cells)) = 31
    /\ Cardinality(EmptyCells(initial)) = 30

(***************************************************************************)
(* Properties of find_best_cell_to_fill.                                   *)
(***************************************************************************)
\* p comes before q in the order row by row.
Before(p, q) == p[1] < q[1] \/ (p[1] = q[1] /\ p[2] < q[2])

\* The empty cells of g that have no candidate.
DeadCells(g) == {p \in EmptyCells(g) : Candidates(g, p) = {}}

\* C21: when every empty cell has a candidate, find_best_cell_to_fill
\* returns an empty cell with the least number of candidates, the first of
\* them row by row; it returns None when the board has no empty cell.
C21_BestCell ==
    [][(last'.op = "find_best_cell_to_fill" /\ DeadCells(cells) = {}) =>
          IF EmptyCells(cells) = {}
          THEN last'.cell = None
          ELSE /\ last'.cell \in EmptyCells(cells)
               /\ \A q \in EmptyCells(cells) :
                     LET n == Cardinality(Candidates(cells, last'.cell))
                         m == Cardinality(Candidates(cells, q))
                     IN  n <= m /\ (n = m /\ q # last'.cell => Before(last'.cell, q))]_vars

\* find_best_cell_to_fill has returned a cell that comes after an empty cell
\* with more candidates and before one with as many, on a board whose empty
\* cells all have a candidate.
C21_Witness ==
    /\ last.op = "find_best_cell_to_fill"
    /\ DeadCells(cells) = {}
    /\ last.cell \in EmptyCells(cells)
    /\ \E q \in EmptyCells(cells) :
          /\ Before(q, last.cell)
          /\ Cardinality(Candidates(cells, q)) > Cardinality(Candidates(cells, last.cell))
    /\ \E q \in EmptyCells(cells) :
          /\ Before(last.cell, q)
          /\ Cardinality(Candidates(cells, q)) = Cardinality(Candidates(cells, last.cell))

C23_DeadCellFails ==
    DeadCells(initial) # {} => (solution = None /\ (last.op = "init" => ~last.ret))

\* A board without a solution has been constructed from a grid with an empty
\* cell that has no candidate and an empty cell before it that has one.
C23_Witness ==
    /\ last.op = "init" /\ solution = None
    /\ \E p \in DeadCells(initial) :
          \E q \in EmptyCells(initial) : Before(q, p) /\ Candidates(initial, q) # {}

\* The valid complete grids that extend g.
Completions(g) == {f \in Fillings(g, EmptyCells(g)) : ValidComplete(f)}

\* a comes before b in the lexicographic order of the grids read row by row.
LexLess(a, b) ==
    \E p \in Cells :
        /\ Cell(a, p[1], p[2]) < Cell(b, p[1], p[2])
        /\ \A q \in Cells : Before(q, p) => Cell(a, q[1], q[2]) = Cell(b, q[1], q[2])

\* C24: the solution of a board constructed from a grid without a duplicate
\* digit in a unit, and with a valid completion, is the least of the valid
\* completions of the grid in the lexicographic order of the grids read row
\* by row; so that equal grids give equal solutions.
C24_LeastCompletion ==
    (last.op = "init" /\ NoDuplicates(initial) /\ Completions(initial) # {}) =>
        /\ solution # None
        /\ solution_grid \in Completions(initial)
        /\ \A f \in Completions(initial) \ {solution_grid} : LexLess(solution_grid, f)

\* A board has been constructed from a grid with two valid completions or
\* more, and it has a solution.
C24_Witness ==
    /\ last.op = "init" /\ solution # None
    /\ NoDuplicates(initial)
    /\ Cardinality(Completions(initial)) >= 2

(***************************************************************************)
(* Properties of the searches, step by step.                               *)
(***************************************************************************)
\* The grid the outermost call of the running search started on.
Root == IF gen.pc = "fill" THEN EmptyGrid ELSE initial

\* The trial assignments of the calls that wait: a call that begins with
\* these calls waiting begins on Root with these assignments made, cell by
\* cell.
Trials == {<<search.stack[i].row, search.stack[i].col,
             search.stack[i].numbers[search.stack[i].i]>> : i \in 1..Len(search.stack)}

\* C25: a call of the solver that returns False leaves the grid as it was
\* when the call began, and a call that returns True has changed empty cells
\* only; on a grid without an empty cell the solver returns True and the
\* grid is as it was.
C25_SearchFrame ==
    search # None =>
        /\ search.state \in {"call", "failed"} =>
               \A p \in Cells :
                   Cell(search.board, p[1], p[2]) =
                       IF \E t \in Trials : t[1] = p[1] /\ t[2] = p[2]
                       THEN (CHOOSE t \in Trials : t[1] = p[1] /\ t[2] = p[2])[3]
                       ELSE Cell(Root, p[1], p[2])
        /\ (search.state = "done" /\ ~search.ret) => search.board = Root
        /\ (search.state = "done" /\ search.ret) => Extends(search.board, Root)
        /\ (search.state = "done" /\ EmptyCells(Root) = {}) =>
               (search.ret /\ search.board = Root)

\* The solver has returned False on a grid whose first empty cell has a
\* candidate, which it has tried and taken back.
C25_Witness ==
    /\ gen.pc = "solve"
    /\ search # None /\ search.state = "done" /\ ~search.ret
    /\ search.board = initial
    /\ \E p \in EmptyCells(initial) :
          /\ \A q \in EmptyCells(initial) : q = p \/ Before(p, q)
          /\ Candidates(initial, p) # {}

\* _fill_board_randomly has returned.
FillReturned == gen.pc = "fill" /\ search.state = "done"

\* C26: _fill_board_randomly on the empty grid terminates and returns True,
\* and the grid it leaves is complete with every row, column and box holding
\* 1..9; the solver of a board constructed from the empty grid terminates
\* with a valid complete solution.
C26_FillSucceeds ==
    /\ (gen.pc = "fill") ~> FillReturned
    /\ [](FillReturned => (search.ret /\ ValidComplete(search.board)))
    /\ (gen.pc = "solve") ~> Returned
    /\ []((Returned /\ initial = EmptyGrid) =>
              (solution # None /\ ValidComplete(solution_grid)))

\* _fill_board_randomly has returned True with a valid complete grid, its
\* shuffles having left the numbers in descending order.
C26_Witness ==
    /\ FillReturned /\ search.ret
    /\ gen.numbers[1] = 9
    /\ ValidComplete(search.board)

(***************************************************************************)
(* Properties of the board under play.                                     *)
(***************************************************************************)
\* C27: on a board constructed from a grid without a duplicate digit in a
\* unit, in every state that place_number, reset and solve_puzzle reach,
\* is_complete() implies is_valid_complete().
C27_CompleteIsValid ==
    NoDuplicates(initial) => (is_complete_ret => is_valid_complete_ret)

\* place_number has filled the last empty cell of a board constructed from a
\* grid with empty cells and without a duplicate, and the board is complete
\* and valid.
C27_Witness ==
    /\ last.op = "place_number" /\ last.ret /\ last.num # 0
    /\ NoDuplicates(initial) /\ EmptyCells(initial) # {}
    /\ is_complete_ret /\ is_valid_complete_ret

\* C28: for every empty cell (row, col) and every digit d of 1..9, d is in
\* get_possibilities(row, col) if and only if place_number(row, col, d)
\* would return True.
C28_QueryAgreesWithPlacement ==
    \A p \in EmptyCells(cells) :
        possibilities(p[1], p[2]) = {d \in Digits : place_number_ret(p[1], p[2], d)}

\* An empty cell has a candidate, and a digit that its column holds and its
\* row and its box do not is none of its candidates.
C28_Witness ==
    \E p \in EmptyCells(cells), d \in Digits :
        /\ possibilities(p[1], p[2]) # {}
        /\ d \notin possibilities(p[1], p[2])
        /\ ~place_number_ret(p[1], p[2], d)
        /\ \A q \in UnitCells[p] : Cell(cells, q[1], q[2]) = d => (q[2] = p[2] /\ q[1] \div 3 # p[1] \div 3)

(***************************************************************************)
(* Properties of the deductions.                                           *)
(***************************************************************************)
\* C29: on a board without a duplicate digit in a unit, every triple
\* (row, col, d) that find_naked_singles, find_hidden_singles_in_row or
\* find_hidden_singles_in_column returns is forced: every valid completion
\* of the cells holds d at (row, col).
C29_DeductionsForced ==
    [][(/\ last'.op \in {"find_naked_singles", "find_hidden_singles_in_row",
                         "find_hidden_singles_in_column"}
        /\ last'.list # <<>>
        /\ NoDuplicates(cells)) =>
           \A f \in Completions(cells) :
               \A t \in ListSet(last'.list) : Cell(f, t[1], t[2]) = t[3]]_vars

\* find_hidden_singles_in_column has returned a triple for a cell with two
\* candidates or more, on a board without a duplicate that has a valid
\* completion.
C29_Witness ==
    /\ last.op = "find_hidden_singles_in_column"
    /\ NoDuplicates(cells) /\ Completions(cells) # {}
    /\ \E t \in ListSet(last.list) : Cardinality(Candidates(cells, <<t[1], t[2]>>)) >= 2

(***************************************************************************)
(* The given cells under the events of a game.                             *)
(***************************************************************************)
\* C30: in a game, whatever events are handled (clicks on cells and buttons,
\* digit keys, Delete and Backspace, the hint keys, pause, Solve), every
\* cell that is non-zero in the initial snapshot holds its initial digit on
\* the board, and the selected cell, if there is one, is empty in the
\* initial snapshot.
C30_GivensKept ==
    board # None =>
        /\ \A p \in Cells :
              Cell(initial, p[1], p[2]) # 0 =>
                  Cell(cells, p[1], p[2]) = Cell(initial, p[1], p[2])
        /\ game.selected_cell # None =>
              Cell(initial, game.selected_cell[1], game.selected_cell[2]) = 0

\* After Solve, with a cell selected, Delete or Backspace has cleared the
\* cell, on a board with given cells.
C30_Witness ==
    /\ gen.pc = "done" /\ game # None
    /\ won
    /\ last.op = "handle_key_press"
    /\ last.label \in {"DELETE", "BACKSPACE"}
    /\ game.selected_cell # None
    /\ Cell(cells, game.selected_cell[1], game.selected_cell[2]) = 0
    /\ cells # solution_grid
    /\ \E p \in Cells : Cell(initial, p[1], p[2]) # 0

====
